---- MODULE Spec2Model ----
(***************************************************************************)
(* A model of src/mcp_server.py: the credential extractor, the             *)
(* authorization gate, the GET/POST/OPTIONS handlers and the tool          *)
(* executor of MCPServerHandler.                                           *)
(*                                                                         *)
(* Text that the code slices, searches or parses (the Authorization        *)
(* header, the request path with its query string) is a sequence of        *)
(* one-character strings, so that startswith, [7:], `in`, urlparse and     *)
(* parse_qs are computed character by character.  An optional value        *)
(* (Python's None or a value) is <<>> or <<value>>.                        *)
(***************************************************************************)
EXTENDS Naturals, Sequences, FiniteSets

VARIABLES authorized_keys, pc, request, gate, extracted, trace, responses

vars == <<authorized_keys, pc, request, gate, extracted, trace, responses>>

(***************************************************************************)
(* Python values                                                           *)
(***************************************************************************)

None == <<>>

Some(v) == <<v>>

\* Python's truth value of an optional string: None and '' are false.
Truthy(o) == o # None /\ Len(o[1]) > 0

\* s.startswith(p)
startswith(s, p) == Len(s) >= Len(p) /\ SubSeq(s, 1, Len(p)) = p

\* s[n:]
SliceFrom(s, n) == SubSeq(s, n + 1, Len(s))

\* sub in s
Contains(s, sub) ==
  \E i \in 1..(Len(s) + 1) : i + Len(sub) - 1 <= Len(s) /\ SubSeq(s, i, i + Len(sub) - 1) = sub

\* s.find(c) + 1 for a single character c: 0 when c does not occur.
Find(s, c) ==
  IF \E i \in 1..Len(s) : s[i] = c
  THEN CHOOSE i \in 1..Len(s) : s[i] = c /\ \A j \in 1..(i - 1) : s[j] # c
  ELSE 0

\* s.split(c): the pieces of s between the occurrences of the character c.
RECURSIVE Split(_, _)
Split(s, c) ==
  LET i == Find(s, c)
  IN IF i = 0 THEN <<s>> ELSE <<SubSeq(s, 1, i - 1)>> \o Split(SliceFrom(s, i), c)

\* s.replace('+', ' ')
PlusToSpace(s) == [i \in 1..Len(s) |-> IF s[i] = "+" THEN " " ELSE s[i]]

(***************************************************************************)
(* urllib.parse as the handler uses it.  Request paths here start with one *)
(* "/" and hold no ";" and no "%", so urlparse finds no scheme, netloc or  *)
(* params and unquote changes nothing.                                     *)
(***************************************************************************)

\* urllib.parse.urlparse(url): the fragment is cut at the first "#", then
\* the query at the first "?".
urlparse(url) ==
  LET h == Find(url, "#")
      nofrag == IF h = 0 THEN url ELSE SubSeq(url, 1, h - 1)
      q == Find(nofrag, "?")
  IN [path     |-> IF q = 0 THEN nofrag ELSE SubSeq(nofrag, 1, q - 1),
      query    |-> IF q = 0 THEN <<>> ELSE SliceFrom(nofrag, q),
      fragment |-> IF h = 0 THEN <<>> ELSE SliceFrom(url, h)]

\* The <<name, value>> pair of one "&"-separated field, or no pair: a field
\* without "=" or with a blank value is dropped (keep_blank_values=False).
ParseField(f) ==
  LET e == Find(f, "=")
  IN IF e = 0 \/ Len(f) = e
     THEN <<>>
     ELSE << <<PlusToSpace(SubSeq(f, 1, e - 1)), PlusToSpace(SliceFrom(f, e))>> >>

RECURSIVE ParseFields(_)
ParseFields(fs) ==
  IF fs = <<>> THEN <<>> ELSE ParseField(Head(fs)) \o ParseFields(Tail(fs))

\* urllib.parse.parse_qs(qs), as the sequence of its <<name, value>> pairs in
\* the order of the query string.
parse_qs(qs) == ParseFields(Split(qs, "&"))

\* query_params[name]: the values of name, in order; <<>> when name is not a
\* key of the dictionary.
QueryValues(query_params, name) ==
  LET IsName(p) == p[1] = name
      ps == SelectSeq(query_params, IsName)
  IN [i \in 1..Len(ps) |-> ps[i][2]]

(***************************************************************************)
(* Text constants of the handler                                           *)
(***************************************************************************)

BearerPrefix == <<"B", "e", "a", "r", "e", "r", " ">>

ApiKeyPrefix == <<"A", "p", "i", "K", "e", "y", " ">>

\* The scheme words without the space that follows them in the prefixes.
BearerWord == <<"B", "e", "a", "r", "e", "r">>

ApiKeyWord == <<"A", "p", "i", "K", "e", "y">>

KeyName == <<"k", "e", "y">>

AuthName == <<"a", "u", "t", "h">>

KeyEq == <<"k", "e", "y", "=">>

AuthEq == <<"a", "u", "t", "h", "=">>

(***************************************************************************)
(* MCPServerHandler.extract_authorization_key and is_authorized            *)
(***************************************************************************)

\* self.headers.get('Authorization')
AuthorizationHeader(req) == req.authorization

\* A variant that tries the URL parameter auth before the URL parameter key.
extract_authorization_key_auth_first(req) ==
  LET auth_header == AuthorizationHeader(req)
      query_params == parse_qs(urlparse(req.path).query)
      key_values == QueryValues(query_params, KeyName)
      auth_values == QueryValues(query_params, AuthName)
  IN IF Truthy(auth_header)
     THEN IF startswith(auth_header[1], BearerPrefix)
          THEN Some(SliceFrom(auth_header[1], 7))
          ELSE IF startswith(auth_header[1], ApiKeyPrefix)
               THEN Some(SliceFrom(auth_header[1], 7))
               ELSE Some(auth_header[1])
     ELSE IF auth_values # <<>>
          THEN Some(auth_values[1])
          ELSE IF key_values # <<>>
               THEN Some(key_values[1])
               ELSE None

\* A variant that matches the scheme word without the space after it.
extract_authorization_key_loose_prefix(req) ==
  LET auth_header == AuthorizationHeader(req)
      query_params == parse_qs(urlparse(req.path).query)
      key_values == QueryValues(query_params, KeyName)
      auth_values == QueryValues(query_params, AuthName)
  IN IF Truthy(auth_header)
     THEN IF startswith(auth_header[1], BearerWord)
          THEN Some(SliceFrom(auth_header[1], 7))
          ELSE IF startswith(auth_header[1], ApiKeyWord)
               THEN Some(SliceFrom(auth_header[1], 7))
               ELSE Some(auth_header[1])
     ELSE IF key_values # <<>>
          THEN Some(key_values[1])
          ELSE IF auth_values # <<>>
               THEN Some(auth_values[1])
               ELSE None

extract_authorization_key(req) ==
  LET auth_header == AuthorizationHeader(req)
      query_params == parse_qs(urlparse(req.path).query)
      key_values == QueryValues(query_params, KeyName)
      auth_values == QueryValues(query_params, AuthName)
  IN IF Truthy(auth_header)
     THEN IF startswith(auth_header[1], BearerPrefix)
          THEN Some(SliceFrom(auth_header[1], 7))
          ELSE IF startswith(auth_header[1], ApiKeyPrefix)
               THEN Some(SliceFrom(auth_header[1], 7))
               ELSE Some(auth_header[1])
     ELSE IF key_values # <<>>
          THEN Some(key_values[1])
          ELSE IF auth_values # <<>>
               THEN Some(auth_values[1])
               ELSE None

\* A variant that accepts any credential that is present.
is_authorized_any_key(req, keys) ==
  IF keys = {}
  THEN TRUE
  ELSE Truthy(extract_authorization_key(req))

\* A variant without the open mode of an empty credential set.
is_authorized_no_open_mode(req, keys) ==
  LET auth_key == extract_authorization_key(req)
  IN IF ~Truthy(auth_key)
     THEN FALSE
     ELSE auth_key[1] \in keys

is_authorized(req, keys) ==
  IF keys = {}
  THEN TRUE
  ELSE LET auth_key == extract_authorization_key(req)
       IN IF ~Truthy(auth_key)
          THEN FALSE
          ELSE auth_key[1] \in keys

(***************************************************************************)
(* JSON values: json.loads of a body and the payloads of the responses.    *)
(* Python's None is JNull.                                                 *)
(***************************************************************************)

JNull == [t |-> "null"]

JStr(s) == [t |-> "str", s |-> s]

JNum(n) == [t |-> "num", n |-> n]

JList == [t |-> "list"]

\* d: a function from member names to JSON values.
JDict(d) == [t |-> "dict", d |-> d]

EmptyDict == [k \in {} |-> JNull]

\* value.get(name, default) of a Python object known to be a dict.
DictGet(v, name, default) == IF name \in DOMAIN v.d THEN v.d[name] ELSE default

\* Whether value.get exists: a list, str, int or None has no attribute get.
HasGet(v) == v.t = "dict"

\* json.loads(text) on the request bodies of this model: <<>> for a
\* JSONDecodeError, otherwise <<value>>.
json_loads(text) ==
  CASE text = "{}" -> Some(JDict(EmptyDict))
    [] text = "[]" -> Some(JList)
    [] text = "{\"tool\":\"echo\"}" -> Some(JDict([tool |-> JStr("echo")]))
    [] text = "{\"tool\":\"echo\",\"parameters\":{\"message\":\"hi\"}}" ->
         Some(JDict([tool |-> JStr("echo"),
                     parameters |-> JDict([message |-> JStr("hi")])]))
    [] text = "{\"tool\":\"echo\",\"parameters\":{\"message\":5}}" ->
         Some(JDict([tool |-> JStr("echo"),
                     parameters |-> JDict([message |-> JNum(5)])]))
    [] text = "{\"tool\":\"echo\",\"parameters\":\"x\"}" ->
         Some(JDict([tool |-> JStr("echo"), parameters |-> JStr("x")]))
    [] text = "{\"tool\":\"auth_info\"}" -> Some(JDict([tool |-> JStr("auth_info")]))
    [] text = "{\"tool\":\"nonexistent\"}" -> Some(JDict([tool |-> JStr("nonexistent")]))
    [] OTHER -> None

(***************************************************************************)
(* Responses                                                               *)
(***************************************************************************)

CorsHeaders ==
  { <<"Access-Control-Allow-Origin", "*">>,
    <<"Access-Control-Allow-Methods", "GET, POST, OPTIONS">>,
    <<"Access-Control-Allow-Headers", "Content-Type, Authorization">> }

ContentTypeJson == <<"Content-Type", "application/json">>

\* A variant that sends no CORS headers.
send_json_response_no_cors(data, status_code) ==
  [status  |-> status_code,
   headers |-> {ContentTypeJson},
   body    |-> Some(data)]

\* One response on the wire: the status line, the headers the handler sends
\* (the Server and Date headers of send_response are left out) and the body.
send_json_response(data, status_code) ==
  [status  |-> status_code,
   headers |-> {ContentTypeJson} \cup CorsHeaders,
   body    |-> Some(data)]

send_error_response(message, status_code) ==
  send_json_response([error |-> message, status |-> status_code], status_code)

\* self.date_time_string(): the clock is not modelled.
date_time_string == "date_time_string"

(***************************************************************************)
(* What one handler run yields: the gate's answer (<<>> when is_authorized *)
(* was not called), the calls made in order, and the responses written.    *)
(***************************************************************************)

Outcome(g, tr, rs) == [gate |-> g, trace |-> tr, responses |-> rs]

\* The calls is_authorized makes.
GateTrace(keys) ==
  IF keys = {} THEN <<"is_authorized">>
  ELSE <<"is_authorized", "extract_authorization_key">>

\* A variant without the return after the 401: the handler goes on to route.
Unauthorized_missing_return(keys) ==
  Outcome(Some(FALSE), GateTrace(keys) \o <<"route">>,
          <<send_error_response("Unauthorized: Invalid or missing authorization key", 401),
            send_error_response("Not Found", 404)>>)

\* The denial of do_GET and do_POST: the 401 envelope, then return.
Unauthorized(keys) ==
  Outcome(Some(FALSE), GateTrace(keys),
          <<send_error_response("Unauthorized: Invalid or missing authorization key", 401)>>)

\* A variant that puts the preflight behind the gate.
do_OPTIONS_gated(req, keys) ==
  IF ~is_authorized(req, keys)
  THEN Unauthorized(keys)
  ELSE Outcome(Some(TRUE), GateTrace(keys),
               <<[status |-> 200, headers |-> CorsHeaders, body |-> None]>>)

\* do_OPTIONS reads neither the request nor the credential set.
do_OPTIONS_result(req, keys) ==
  Outcome(None, <<>>, <<[status |-> 200, headers |-> CorsHeaders, body |-> None]>>)

\* The method the /auth-test endpoint and the auth_info tool report.
auth_method(req) ==
  IF Truthy(AuthorizationHeader(req)) THEN "header"
  ELSE IF Contains(req.path, KeyEq) THEN "url_parameter_key"
  ELSE IF Contains(req.path, AuthEq) THEN "url_parameter_auth"
  ELSE "none"

\* auth_key in self.authorized_keys if self.authorized_keys else True
key_valid(auth_key, keys) ==
  IF keys # {} THEN auth_key # None /\ auth_key[1] \in keys ELSE TRUE

server_info ==
  [name |-> "MCP Server with Authorization Fallback",
   version |-> "1.0.0",
   authorization_methods |->
     <<"Authorization header (Bearer <token>)", "Authorization header (ApiKey <key>)",
       "URL parameter (?key=<key>)", "URL parameter (?auth=<key>)">>,
   endpoints |-> {"/", "/health", "/tools", "/auth-test"}]

tools_registry ==
  [tools |->
     << [name |-> "echo",
         parameters |-> [message |-> [type |-> "string", required |-> TRUE]]],
        [name |-> "auth_info", parameters |-> EmptyDict] >>]

RootPath == <<"/">>

HealthPath == <<"/", "h", "e", "a", "l", "t", "h">>

ToolsPath == <<"/", "t", "o", "o", "l", "s">>

AuthTestPath == <<"/", "a", "u", "t", "h", "-", "t", "e", "s", "t">>

ExecutePath == <<"/", "e", "x", "e", "c", "u", "t", "e">>

do_GET_result(req, keys) ==
  IF ~is_authorized(req, keys)
  THEN Unauthorized(keys)
  ELSE
    LET path == urlparse(req.path).path
        auth_key == extract_authorization_key(req)
    IN CASE path = RootPath ->
              Outcome(Some(TRUE), GateTrace(keys) \o <<"route">>,
                      <<send_json_response(server_info, 200)>>)
         [] path = HealthPath ->
              Outcome(Some(TRUE), GateTrace(keys) \o <<"route">>,
                      <<send_json_response([status |-> "healthy",
                                            timestamp |-> date_time_string,
                                            authorized |-> TRUE], 200)>>)
         [] path = ToolsPath ->
              Outcome(Some(TRUE), GateTrace(keys) \o <<"route">>,
                      <<send_json_response(tools_registry, 200)>>)
         [] path = AuthTestPath ->
              Outcome(Some(TRUE),
                      GateTrace(keys) \o <<"route", "extract_authorization_key">>,
                      <<send_json_response([authorized |-> TRUE,
                                            method_used |-> auth_method(req),
                                            key_present |-> auth_key # None,
                                            key_valid |-> key_valid(auth_key, keys)], 200)>>)
         [] OTHER ->
              Outcome(Some(TRUE), GateTrace(keys) \o <<"route">>,
                      <<send_error_response("Not Found", 404)>>)

(***************************************************************************)
(* handle_tool_execution and do_POST                                       *)
(***************************************************************************)

\* f"{tool_name}" in the unknown-tool message.
ToolText(tool_name) ==
  CASE tool_name.t = "str" -> tool_name.s
    [] tool_name.t = "null" -> "None"
    [] OTHER -> "<value>"

\* handle_tool_execution(data): <<>> when it raises (data or parameters has
\* no attribute get), otherwise <<[trace, response]>>.
handle_tool_execution(req, keys, data) ==
  IF ~HasGet(data) THEN None
  ELSE
    LET tool_name == DictGet(data, "tool", JNull)
        parameters == DictGet(data, "parameters", JDict(EmptyDict))
        auth_key == extract_authorization_key(req)
    IN CASE tool_name = JStr("echo") ->
              IF ~HasGet(parameters) THEN None
              ELSE Some([trace |-> <<"handle_tool_execution">>,
                         response |->
                           send_json_response(
                             [tool |-> "echo",
                              result |->
                                [echoed_message |->
                                   DictGet(parameters, "message", JStr("No message provided")),
                                 timestamp |-> date_time_string]], 200)])
         [] tool_name = JStr("auth_info") ->
              Some([trace |-> <<"handle_tool_execution", "extract_authorization_key">>,
                    response |->
                      send_json_response(
                        [tool |-> "auth_info",
                         result |->
                           [authorization_method |-> auth_method(req),
                            key_present |-> auth_key # None,
                            key_valid |-> key_valid(auth_key, keys),
                            timestamp |-> date_time_string]], 200)])
         [] OTHER ->
              Some([trace |-> <<"handle_tool_execution">>,
                    response |->
                      send_error_response("Unknown tool: " \o ToolText(tool_name), 400)])

Digits == <<"0", "1", "2", "3", "4", "5", "6", "7", "8", "9">>

DigitValue(c) == (CHOOSE i \in 1..10 : Digits[i] = c) - 1

\* Whether int(s) succeeds, for text of digits and letters.
IsInt(s) == Len(s) > 0 /\ \A i \in 1..Len(s) : \E d \in 1..10 : Digits[d] = s[i]

RECURSIVE IntOf(_)
IntOf(s) ==
  IF s = <<>> THEN 0
  ELSE 10 * IntOf(SubSeq(s, 1, Len(s) - 1)) + DigitValue(s[Len(s)])

\* self.rfile.read(content_length), for a declared length of 0 or of the
\* whole body.
rfile_read(body, content_length) ==
  IF content_length = 0 THEN [raw |-> "", utf8 |-> TRUE] ELSE body

InternalError(keys, tr) ==
  Outcome(Some(TRUE), GateTrace(keys) \o tr,
          <<send_error_response("Internal server error", 500)>>)

do_POST_result(req, keys) ==
  IF ~is_authorized(req, keys)
  THEN Unauthorized(keys)
  ELSE
    LET header == req.content_length
    IN IF header # None /\ ~IsInt(header[1])
       THEN InternalError(keys, <<>>)
       ELSE
         LET content_length == IF header = None THEN 0 ELSE IntOf(header[1])
             post_data == rfile_read(req.body, content_length)
             data == json_loads(post_data.raw)
             path == urlparse(req.path).path
         IN IF ~post_data.utf8
            THEN InternalError(keys, <<"rfile.read">>)
            ELSE IF data = None
            THEN Outcome(Some(TRUE), GateTrace(keys) \o <<"rfile.read", "json.loads">>,
                         <<send_error_response("Invalid JSON in request body", 400)>>)
            ELSE IF path = ExecutePath
            THEN LET done == handle_tool_execution(req, keys, data[1])
                 IN IF done = None
                    THEN InternalError(keys, <<"rfile.read", "json.loads", "route",
                                               "handle_tool_execution">>)
                    ELSE Outcome(Some(TRUE),
                                 GateTrace(keys) \o <<"rfile.read", "json.loads", "route">>
                                   \o done[1].trace,
                                 <<done[1].response>>)
            ELSE Outcome(Some(TRUE),
                         GateTrace(keys) \o <<"rfile.read", "json.loads", "route">>,
                         <<send_error_response("Endpoint not found", 404)>>)

(***************************************************************************)
(* The requests and the configurations the model runs on                   *)
(***************************************************************************)

\* The longest credential text after a header's scheme word.
MaxTokLen == 1

\* The most "&"-separated fields of a query string.
MaxSegs == 2

TokAlphabet == {"a"}

Tokens == UNION {[1..k -> TokAlphabet] : k \in 0..MaxTokLen}

\* --keys: the credentials the operator may configure ('' and 'a').
Keys == {<<>>, <<"a">>}

HeaderPrefixes ==
  { <<>>, BearerPrefix, ApiKeyPrefix,
    BearerWord, ApiKeyWord }

AuthorizationHeaders == {None} \cup {Some(p \o t) : p \in HeaderPrefixes, t \in Tokens}

Segs ==
  { <<"k", "e", "y", "=", "a">>,
    <<"k", "e", "y", "=", "+", "b">>,
    <<"k", "e", "y", "=">>,
    <<"a", "u", "t", "h", "=", "a">>,
    <<"x", "k", "e", "y", "=", "a">> }

RECURSIVE Join(_)
Join(fs) ==
  IF Len(fs) = 1 THEN fs[1] ELSE fs[1] \o <<"&">> \o Join(Tail(fs))

\* What follows the path in the request line: nothing, a query string, or a
\* fragment.
Tails ==
  { <<>>, <<"?">>, <<"#", "k", "e", "y", "=", "a">> }
    \cup {<<"?">> \o Join(fs) : fs \in UNION {[1..k -> Segs] : k \in 1..MaxSegs}}

NopePath == <<"/", "n", "o", "p", "e">>

GetPaths == {RootPath, HealthPath, ToolsPath, AuthTestPath, ExecutePath, NopePath}

PostPaths == {ExecutePath, HealthPath, NopePath}

OptionsPaths == {AuthTestPath, NopePath}

NoBody == [raw |-> "", utf8 |-> TRUE]

JsonTexts ==
  { "not json", "{}", "[]",
    "{\"tool\":\"echo\"}",
    "{\"tool\":\"echo\",\"parameters\":{\"message\":\"hi\"}}",
    "{\"tool\":\"echo\",\"parameters\":{\"message\":5}}",
    "{\"tool\":\"echo\",\"parameters\":\"x\"}",
    "{\"tool\":\"auth_info\"}",
    "{\"tool\":\"nonexistent\"}" }

\* str(n) for n < 100.
Decimal(n) ==
  IF n < 10 THEN <<Digits[n + 1]>> ELSE <<Digits[(n \div 10) + 1], Digits[(n % 10) + 1]>>

\* The <<Content-Length header, body>> pairs of the POST requests: each text
\* with its own length declared, a body that is not UTF-8, a body with no
\* Content-Length header, and a Content-Length that is no number.
Payloads ==
  {<<Some(Decimal(Len(t))), [raw |-> t, utf8 |-> TRUE]>> : t \in JsonTexts}
    \cup { <<Some(<<"2">>), [raw |-> "<ff fe>", utf8 |-> FALSE]>>,
           <<None, [raw |-> "{\"tool\":\"echo\"}", utf8 |-> TRUE]>>,
           <<Some(<<"x">>), [raw |-> "{}", utf8 |-> TRUE]>> }

Request(command, path, authorization, payload) ==
  [command |-> command, path |-> path, authorization |-> authorization,
   content_length |-> payload[1], body |-> payload[2]]

GetRequests ==
  {Request("GET", p \o t, h, <<None, NoBody>>) :
     p \in GetPaths, t \in Tails, h \in AuthorizationHeaders}

PostRequests ==
  {Request("POST", pt[1] \o pt[2], hb[1], hb[2]) :
     pt \in PostPaths \X Tails, hb \in AuthorizationHeaders \X Payloads}

OptionsRequests ==
  {Request("OPTIONS", p \o t, h, <<None, NoBody>>) :
     p \in OptionsPaths, t \in Tails, h \in AuthorizationHeaders}

(***************************************************************************)
(* The server: main builds the credential set, then the handler of each    *)
(* request runs to its end before the next request is taken.               *)
(***************************************************************************)

\* authorized_keys = set(args.keys) if args.keys else set()
Init ==
  /\ authorized_keys \in SUBSET Keys
  /\ pc = "idle"
  /\ request = None
  /\ gate = None
  /\ extracted = None
  /\ trace = <<>>
  /\ responses = <<>>

Called(tr, name) == \E i \in 1..Len(tr) : tr[i] = name

Handle(req, out) ==
  /\ pc' = "done"
  /\ request' = Some(req)
  /\ gate' = out.gate
  /\ extracted' = IF Called(out.trace, "extract_authorization_key")
                  THEN Some(extract_authorization_key(req))
                  ELSE None
  /\ trace' = out.trace
  /\ responses' = out.responses
  /\ UNCHANGED authorized_keys

do_OPTIONS ==
  /\ pc = "idle"
  /\ \E req \in OptionsRequests : Handle(req, do_OPTIONS_result(req, authorized_keys))

do_GET ==
  /\ pc = "idle"
  /\ \E req \in GetRequests : Handle(req, do_GET_result(req, authorized_keys))

do_POST ==
  /\ pc = "idle"
  /\ \E req \in PostRequests : Handle(req, do_POST_result(req, authorized_keys))

\* The handler returns and the server waits for the next request.
finish ==
  /\ pc = "done"
  /\ pc' = "idle"
  /\ request' = None
  /\ gate' = None
  /\ extracted' = None
  /\ trace' = <<>>
  /\ responses' = <<>>
  /\ UNCHANGED authorized_keys

Next == do_OPTIONS \/ do_GET \/ do_POST \/ finish

Spec == Init /\ [][Next]_vars

(***************************************************************************)
(* Vocabulary of the properties                                            *)
(***************************************************************************)

Done == pc = "done"

\* The request being answered and the first response written to it.
Req == request[1]

Resp == responses[1]

Gated == Done /\ Req.command \in {"GET", "POST"}

\* The {error, status} envelope with status code `code`.
IsErrorEnvelope(r, code) ==
  /\ r.status = code
  /\ r.body # None
  /\ DOMAIN r.body[1] = {"error", "status"}
  /\ r.body[1].status = code

\* The "&"-separated fields of the request's query string, as sent.
QueryFields(req) == Split(urlparse(req.path).query, "&")

\* The query string names the parameter `name` (with or without a value).
HasParam(req, name) ==
  \E i \in 1..Len(QueryFields(req)) :
    \/ QueryFields(req)[i] = name
    \/ startswith(QueryFields(req)[i], name \o <<"=">>)

\* The non-blank values of the query parameter `name`, decoded, in order.
ParamValues(req, name) ==
  LET IsParam(f) == startswith(f, name \o <<"=">>) /\ Len(f) > Len(name) + 1
      fs == SelectSeq(QueryFields(req), IsParam)
  IN [i \in 1..Len(fs) |-> PlusToSpace(SliceFrom(fs[i], Len(name) + 1))]

\* The header value with a leading "Bearer " removed, else a leading
\* "ApiKey " removed, else verbatim.
StripScheme(h) ==
  IF startswith(h, BearerPrefix) THEN SliceFrom(h, Len(BearerPrefix))
  ELSE IF startswith(h, ApiKeyPrefix) THEN SliceFrom(h, Len(ApiKeyPrefix))
  ELSE h

\* The precedence of the sources, the header counting when header_used.
PrecedenceResult(req, header_used) ==
  IF header_used THEN Some(StripScheme(req.authorization[1]))
  ELSE IF ParamValues(req, KeyName) # <<>> THEN Some(ParamValues(req, KeyName)[1])
  ELSE IF ParamValues(req, AuthName) # <<>> THEN Some(ParamValues(req, AuthName)[1])
  ELSE None

\* The source the precedence takes the credential from.
ActualSource(req) ==
  IF Truthy(req.authorization) THEN "header"
  ELSE IF ParamValues(req, KeyName) # <<>> THEN "url_parameter_key"
  ELSE IF ParamValues(req, AuthName) # <<>> THEN "url_parameter_auth"
  ELSE "none"

(***************************************************************************)
(* C1                                                                      *)
(***************************************************************************)

\* C1, as claimed: with a non-empty credential set, is_authorized returns
\* true exactly when extraction yields a credential that is a member of the
\* set.
C1_AsClaimed ==
  (Gated /\ authorized_keys # {} /\ gate # None) =>
    gate[1] = (extracted[1] # None /\ extracted[1][1] \in authorized_keys)

\* C1, amended: with a non-empty credential set, is_authorized returns true
\* exactly when extraction yields a non-empty credential that is a member of
\* the set; it returns false for every request with no Authorization header
\* and no key or auth query parameter.
C1_Gate ==
  (Gated /\ authorized_keys # {} /\ gate # None) =>
    /\ gate[1] = (/\ extracted[1] # None
                  /\ extracted[1][1] # <<>>
                  /\ extracted[1][1] \in authorized_keys)
    /\ (/\ Req.authorization = None
        /\ ~HasParam(Req, KeyName)
        /\ ~HasParam(Req, AuthName)) => gate[1] = FALSE

\* A request with no Authorization header let in on its URL parameter.
C1_Witness ==
  /\ Gated
  /\ authorized_keys # {}
  /\ Req.authorization = None
  /\ gate = Some(TRUE)
  /\ extracted[1][1] \in authorized_keys

(***************************************************************************)
(* C2                                                                      *)
(***************************************************************************)

\* C2: with an empty credential set is_authorized returns true for every GET
\* and POST, whatever credential it carries, and the handler goes on past the
\* gate: no 401 is written, a GET is routed, a POST has its Content-Length
\* and body taken.
C2_OpenMode ==
  (Gated /\ authorized_keys = {}) =>
    /\ gate = Some(TRUE)
    /\ Len(responses) = 1
    /\ Resp.status # 401
    /\ Req.command = "GET" => Called(trace, "route")
    /\ Req.command = "POST" => (Called(trace, "rfile.read") \/ Resp.status = 500)

\* Open mode answering a request whose credential no set would hold.
C2_Witness ==
  /\ Gated
  /\ authorized_keys = {}
  /\ Req.authorization = Some(BearerWord)
  /\ Req.command = "POST"
  /\ Resp.status = 200

(***************************************************************************)
(* C3                                                                      *)
(***************************************************************************)

\* C3: a GET or POST that the gate denies has the gate's call first, writes
\* the 401 envelope as its only response, and neither routes, reads the
\* body, parses JSON nor runs a tool.
C3_DeniedIsFinal ==
  (Gated /\ ~is_authorized(Req, authorized_keys)) =>
    /\ gate = Some(FALSE)
    /\ Len(trace) >= 1
    /\ trace[1] = "is_authorized"
    /\ Len(responses) = 1
    /\ IsErrorEnvelope(Resp, 401)
    /\ \A ev \in {"route", "rfile.read", "json.loads", "handle_tool_execution"} :
         ~Called(trace, ev)

\* A denied POST /execute whose body names a tool.
C3_Witness ==
  /\ Gated
  /\ gate = Some(FALSE)
  /\ Req.command = "POST"
  /\ urlparse(Req.path).path = ExecutePath
  /\ Req.body.raw = "{\"tool\":\"echo\",\"parameters\":{\"message\":\"hi\"}}"
  /\ Resp.status = 401

(***************************************************************************)
(* C4                                                                      *)
(***************************************************************************)

\* C4: an OPTIONS request is answered with 200, the three CORS headers and
\* no body, the same for every credential set and credential, and
\* is_authorized is not called.
C4_Options ==
  (Done /\ Req.command = "OPTIONS") =>
    /\ responses = << [status |-> 200,
                       headers |->
                         { <<"Access-Control-Allow-Origin", "*">>,
                           <<"Access-Control-Allow-Methods", "GET, POST, OPTIONS">>,
                           <<"Access-Control-Allow-Headers", "Content-Type, Authorization">> },
                       body |-> None] >>
    /\ gate = None
    /\ ~Called(trace, "is_authorized")

\* A preflight that the gate would have denied.
C4_Witness ==
  /\ Done
  /\ Req.command = "OPTIONS"
  /\ authorized_keys # {}
  /\ ~is_authorized(Req, authorized_keys)
  /\ Resp.status = 200

(***************************************************************************)
(* C5                                                                      *)
(***************************************************************************)

\* C5, as claimed: whenever an Authorization header is present the result is
\* the header value with its scheme prefix removed and the query parameters
\* are ignored; else the first value of key; else the first value of auth;
\* else absent.
C5_AsClaimed ==
  (Done /\ extracted # None) =>
    extracted[1] = PrecedenceResult(Req, Req.authorization # None)

\* C5, amended: the same precedence, the header counting only when it is
\* present and not empty (an empty Authorization header falls through to the
\* query parameters).
C5_Precedence ==
  (Done /\ extracted # None) =>
    extracted[1] = PrecedenceResult(Req, Truthy(Req.authorization))

\* No header, auth first in the URL, key after it: key's value is taken.
C5_Witness ==
  /\ Done
  /\ extracted # None
  /\ Req.authorization = None
  /\ startswith(urlparse(Req.path).query, AuthEq)
  /\ ParamValues(Req, AuthName) # <<>>
  /\ ParamValues(Req, KeyName) # <<>>
  /\ extracted[1] = Some(ParamValues(Req, KeyName)[1])
  /\ extracted[1] # Some(ParamValues(Req, AuthName)[1])

(***************************************************************************)
(* C6                                                                      *)
(***************************************************************************)

JsonContentType == <<"Content-Type", "application/json">>

PermissiveCors ==
  { <<"Access-Control-Allow-Origin", "*">>,
    <<"Access-Control-Allow-Methods", "GET, POST, OPTIONS">>,
    <<"Access-Control-Allow-Headers", "Content-Type, Authorization">> }

\* C6, as claimed: every response, of every method, carries Content-Type:
\* application/json and the three CORS headers.
C6_AsClaimed ==
  Done => \A i \in 1..Len(responses) :
            {JsonContentType} \cup PermissiveCors \subseteq responses[i].headers

\* C6, amended: every response to a GET or POST carries Content-Type:
\* application/json and the three CORS headers; the response to an OPTIONS
\* carries the three CORS headers and no Content-Type.
C6_Headers ==
  Done => \A i \in 1..Len(responses) :
            IF Req.command = "OPTIONS"
            THEN responses[i].headers = PermissiveCors
            ELSE {JsonContentType} \cup PermissiveCors \subseteq responses[i].headers

\* A 500 written by the catch-all of do_POST.
C6_Witness ==
  /\ Done
  /\ Req.command = "POST"
  /\ Resp.status = 500
  /\ Resp.headers = {JsonContentType} \cup PermissiveCors

(***************************************************************************)
(* C7                                                                      *)
(***************************************************************************)

KnownRoutes ==
  { <<"GET", RootPath>>, <<"GET", HealthPath>>, <<"GET", ToolsPath>>,
    <<"GET", AuthTestPath>>, <<"POST", ExecutePath>> }

\* C7: every authorized GET or POST whose (method, path) is not a known
\* route is answered with the 404 envelope, whatever its body.
C7_NotFound ==
  (/\ Gated
   /\ gate = Some(TRUE)
   /\ <<Req.command, urlparse(Req.path).path>> \notin KnownRoutes) =>
    /\ Len(responses) = 1
    /\ IsErrorEnvelope(Resp, 404)

(***************************************************************************)
(* C8                                                                      *)
(***************************************************************************)

\* The registry entry of GET /tools for the tool `name`, as a set.
RegistryEntries(name) ==
  {tools_registry.tools[i] : i \in {j \in 1..Len(tools_registry.tools) :
                                      tools_registry.tools[j].name = name}}

\* The body reaches json.loads whole and parses to an object naming a
\* registered tool.
WellFormedInvocation(req) ==
  /\ req.body.utf8
  /\ req.content_length = Some(Decimal(Len(req.body.raw)))
  /\ json_loads(req.body.raw) # None
  /\ json_loads(req.body.raw)[1].t = "dict"
  /\ "tool" \in DOMAIN json_loads(req.body.raw)[1].d
  /\ json_loads(req.body.raw)[1].d.tool.t = "str"
  /\ RegistryEntries(json_loads(req.body.raw)[1].d.tool.s) # {}

\* The invocation omits a parameter its registry entry declares required, or
\* its parameters are no mapping, or a declared string parameter is given a
\* value that is no string.
BadParameters(req) ==
  LET data == json_loads(req.body.raw)[1].d
  IN \E e \in RegistryEntries(data.tool.s) :
       \/ "parameters" \in DOMAIN data /\ data.parameters.t # "dict"
       \/ \E p \in DOMAIN e.parameters :
            /\ e.parameters[p].required
            /\ \/ "parameters" \notin DOMAIN data
               \/ /\ data.parameters.t = "dict"
                  /\ p \notin DOMAIN data.parameters.d
       \/ \E p \in DOMAIN e.parameters :
            /\ "parameters" \in DOMAIN data
            /\ data.parameters.t = "dict"
            /\ p \in DOMAIN data.parameters.d
            /\ e.parameters[p].type = "string"
            /\ data.parameters.d[p].t # "str"

\* C8: an authorized POST /execute whose well-formed body names a registered
\* tool but omits a required parameter, or gives invalid parameters, is
\* answered with the 400 envelope.
C8_BadRequest ==
  (/\ Gated
   /\ Req.command = "POST"
   /\ gate = Some(TRUE)
   /\ urlparse(Req.path).path = ExecutePath
   /\ WellFormedInvocation(Req)
   /\ BadParameters(Req)) =>
    /\ Len(responses) = 1
    /\ IsErrorEnvelope(Resp, 400)

(***************************************************************************)
(* C9                                                                      *)
(***************************************************************************)

\* C9: the method GET /auth-test and the auth_info tool report is the source
\* extraction took the credential from, and it is none exactly when no
\* credential was found (key_present false).
C9_Method ==
  (Gated /\ gate = Some(TRUE) /\ Resp.status = 200) =>
    /\ "method_used" \in DOMAIN Resp.body[1] =>
         /\ Resp.body[1].method_used = ActualSource(Req)
         /\ (Resp.body[1].method_used = "none") <=> ~Resp.body[1].key_present
    /\ ("tool" \in DOMAIN Resp.body[1] /\ Resp.body[1].tool = "auth_info") =>
         /\ Resp.body[1].result.authorization_method = ActualSource(Req)
         /\ (Resp.body[1].result.authorization_method = "none")
              <=> ~Resp.body[1].result.key_present

(***************************************************************************)
(* C10                                                                     *)
(***************************************************************************)

\* The header begins with the word Bearer or ApiKey, no space after it.
SchemeWordNoSpace(h) ==
  \/ startswith(h, BearerWord) /\ ~startswith(h, BearerPrefix)
  \/ startswith(h, ApiKeyWord) /\ ~startswith(h, ApiKeyPrefix)

\* C10, as claimed: a header that begins with Bearer or ApiKey without a
\* following space loses its first 7 characters.
C10_AsClaimed ==
  (/\ Done
   /\ extracted # None
   /\ Req.authorization # None
   /\ SchemeWordNoSpace(Req.authorization[1])) =>
    extracted[1] = Some(SliceFrom(Req.authorization[1], 7))

\* C10, amended: a header that begins with Bearer or ApiKey without a
\* following space is the extracted credential verbatim; nothing is removed.
C10_Verbatim ==
  (/\ Done
   /\ extracted # None
   /\ Req.authorization # None
   /\ SchemeWordNoSpace(Req.authorization[1])) =>
    extracted[1] = Some(Req.authorization[1])

\* The header "Bearera" extracted whole.
C10_Witness ==
  /\ Done
  /\ extracted # None
  /\ Req.authorization = Some(BearerWord \o <<"a">>)
  /\ extracted[1] = Some(BearerWord \o <<"a">>)

====
